---------------------------- MODULE Spec2Model ----------------------------
(***************************************************************************)
(* The label-statistics cache of the SWE Quality Backend, together with    *)
(* the collaborators it reads (the submission scanner and the label file   *)
(* store) and the API handlers that drive it.                              *)
(*                                                                         *)
(* Python dicts are functions whose DOMAIN is the set of keys; a tuple     *)
(* (a, b) is the sequence <<a, b>>.                                        *)
(***************************************************************************)
EXTENDS Integers, Sequences, FiniteSets, TLC

(***************************************************************************)
(* The universe of names the model draws from.                             *)
(***************************************************************************)
Agents == {"X", "Y", "Z"}
Problems == {"P1", "P2", "P3"}
ProblemOrder == <<"P1", "P2", "P3">>
Repos == {"acme__widget", "beta__tool"}
RepoOrder == <<"acme__widget", "beta__tool">>

\* The largest number of label files the store holds in a behaviour.
MaxLabels == 2
\* The largest number of draft files the store holds in a behaviour.
MaxDrafts == 1
\* The texts a label or draft file holds.
Texts == {"t1", "t2"}
\* The <<problem, agent>> keys the label store is exercised with on its own.
StoreKeys == {<<"P1", "X">>, <<"P1", "Y">>, <<"P2", "X">>}
\* The threads that run update_problem_label_stats side by side.
Threads == {"T1", "T2"}

VARIABLES
    disk_agents,        \* agent directories under data/submissions
    disk_patches,       \* <<agent, problem>>: a *_patch.diff file is on disk
    disk_resolved,      \* <<agent, problem>>: listed in the agent's results.json
    agents,             \* DataScanner._agents (as a set; kept sorted by the code)
    problems,           \* keys of DataScanner._problems
    agent_submissions,  \* DataScanner._agent_submissions: agent -> problem -> resolved
    labels,             \* <<problem, agent>>: a label file exists
    drafts,             \* <<problem, agent>>: a draft file exists
    problem_stats,      \* LabelStatsCache._problem_stats
    repo_stats,         \* LabelStatsCache._repo_stats
    phase,              \* "constructed" until the startup handler has run, then "serving"
    built,              \* rebuild_cache has run since the index was last scanned
    last,               \* the operation that produced this state, with its arguments
    ret,                \* what the operation returned: a tuple, or "None"
    rb_pc,              \* position of a rebuild_cache execution that runs step by step
    rb_todo,            \* its remaining problems (the for loop of line 39)
    rb_acc,             \* its local dicts repo_issue_counts / repo_fully_labeled_counts
    rb_repo_todo,       \* its remaining repositories (the for loop of line 81)
    rb_old,             \* both mappings as they were when that execution began
    rb_new,             \* both mappings as that execution leaves them
    label_text,         \* <<problem, agent>> -> text of the label file (SpecStore)
    draft_text,         \* <<problem, agent>> -> text of the draft file (SpecStore)
    cd_pc,              \* position of a FileService.commit_draft execution
    cd_key,             \* its <<problem_id, agent_name>>
    cd_content,         \* its local variable content (line 179)
    up_pc,              \* thread -> position in update_problem_label_stats
    up_arg,             \* thread -> <<problem_id, agent_name, has_label>>
    up_old,             \* thread -> its locals labeled_count, total_count (line 122)
    up_todo,            \* thread -> the problems its recount has yet to read
    up_acc,             \* thread -> its recount so far (lines 147-162)
    up_seen,            \* thread -> the tuples its recount has read, by problem
    up_writer           \* the thread that stored a repo tuple last ("-": none)

scanner_vars == <<agents, problems, agent_submissions>>
disk_vars == <<disk_agents, disk_patches, disk_resolved>>
store_vars == <<labels, drafts>>
cache_vars == <<problem_stats, repo_stats>>
rb_vars == <<rb_pc, rb_todo, rb_acc, rb_repo_todo, rb_old, rb_new>>
file_vars == <<label_text, draft_text, cd_pc, cd_key, cd_content>>
up_vars == <<up_pc, up_arg, up_old, up_todo, up_acc, up_seen, up_writer>>
vars == <<disk_agents, disk_patches, disk_resolved, agents, problems,
          agent_submissions, labels, drafts, problem_stats, repo_stats,
          phase, built, last, ret, rb_pc, rb_todo, rb_acc, rb_repo_todo,
          rb_old, rb_new, label_text, draft_text, cd_pc, cd_key, cd_content,
          up_pc, up_arg, up_old, up_todo, up_acc, up_seen, up_writer>>

(***************************************************************************)
(* dict helpers                                                            *)
(***************************************************************************)
EmptyDict == [k \in {} |-> 0]

DictGet(d, k, default) == IF k \in DOMAIN d THEN d[k] ELSE default

DictPut(d, k, v) == [x \in (DOMAIN d) \cup {k} |-> IF x = k THEN v ELSE d[x]]

DictDel(d, k) == [x \in (DOMAIN d) \ {k} |-> d[x]]

Min(a, b) == IF a <= b THEN a ELSE b

Max(a, b) == IF a >= b THEN a ELSE b

\* The elements of S in the order of the sequence order.
SortedSeq(order, S) == SelectSeq(order, LAMBDA x : x \in S)

(***************************************************************************)
(* DataScanner.  The operators that read the scanner take its state ix as  *)
(* a record, so that a handler can read the index it has just rescanned.   *)
(***************************************************************************)
\* The scanner's current state.
Scanner == [agents |-> agents, problems |-> problems, subs |-> agent_submissions]

\* _parse_problem_id: the repository part of a problem id (P1 and P2 stand for
\* acme__widget-1 and acme__widget-2, P3 for beta__tool-1).
RepoOf(p) == IF p \in {"P1", "P2"} THEN "acme__widget" ELSE "beta__tool"

\* _scan_agents: the directories found on disk.
ScanAgents(dagents) == dagents

\* First pass of _scan_problems: the ids of every patch file of every agent directory.
AllProblemIds(dagents, dpatches) ==
    {p \in Problems : \E a \in dagents : <<a, p>> \in dpatches}

\* Second pass of _scan_problems: entries are added to _problems, none is removed.
ScanProblems(old_problems, ids) == old_problems \cup ids

\* Third pass of _scan_problems followed by _load_agent_results: every scanned
\* agent gets a fresh submission for every scanned problem id, resolved exactly when
\* its results.json lists the id; agents no longer on disk keep their old dict.
ScanSubmissions(old_subs, new_agents, ids, dresolved) ==
    [a \in (DOMAIN old_subs) \cup new_agents |->
        IF a \in new_agents
        THEN [p \in ids |-> <<a, p>> \in dresolved]
        ELSE old_subs[a]]

\* get_problems(repo): the problems, optionally of one repository, sorted by id.
GetProblems(ix, repo) ==
    SortedSeq(ProblemOrder,
              {p \in ix.problems : repo = "" \/ RepoOf(p) = repo})

\* get_problem: the problem, or None (FALSE) when the id is unknown.
GetProblem(ix, p) == p \in ix.problems

\* get_agent_submission: TRUE when the agent has a submission for the problem.
HasSubmission(ix, a, p) ==
    a \in DOMAIN ix.subs /\ p \in DOMAIN ix.subs[a]

\* get_all_agent_submissions: the scanned agents that have a submission for p.
GetAllAgentSubmissions(ix, p) == {a \in ix.agents : HasSubmission(ix, a, p)}

\* The resolved agents of p (lines 44-48 of label_stats_cache.py).
ResolvedAgents(ix, p) ==
    {a \in GetAllAgentSubmissions(ix, p) : ix.subs[a][p]}

(***************************************************************************)
(* FileService                                                             *)
(***************************************************************************)
\* get_all_labels_for_problem: the scanned agents with a label file for p.
LabeledAgentNames(ix, p) == {a \in ix.agents : <<p, a>> \in labels}

\* save_label: the label file exists afterwards.
StoreSaveLabel(ls, p, a) == ls \cup {<<p, a>>}

\* delete_label: the label file is gone afterwards.
StoreDeleteLabel(ls, p, a) == ls \ {<<p, a>>}

(***************************************************************************)
(* LabelStatsCache                                                         *)
(***************************************************************************)
\* get_problem_label_stats
\* (Variant calling dict.get without a default: an absent key gives None,
\* written <<>>.)
GetProblemLabelStatsNoDefault(ps, p) == DictGet(ps, p, <<>>)
GetProblemLabelStats(ps, p) == DictGet(ps, p, <<0, 0>>)

\* get_repo_label_stats
GetRepoLabelStats(rs, r) == DictGet(rs, r, <<0, 0>>)

\* The local state of rebuild_cache before its loop (lines 29-37).
\* (Variant whose repository counters start from the repo mapping of the
\* previous build instead of from empty dictionaries.)
RebuildStartKeepCounters ==
    [ps |-> EmptyDict,
     issue |-> [r \in DOMAIN repo_stats |-> repo_stats[r][2]],
     fully |-> [r \in DOMAIN repo_stats |-> repo_stats[r][1]]]
RebuildStart ==
    [ps |-> EmptyDict, issue |-> EmptyDict, fully |-> EmptyDict]

\* Line 75: the issue is fully labeled.
FullyLabeled(labeled, total) == total > 0 /\ labeled = total

\* Lines 63-66: the number of resolved agents that have a label.
\* (Variant that forgets the restriction to resolved agents.)
LabeledResolvedCountAnyAgent(resolved_agents, labeled_agent_names) ==
    Cardinality(labeled_agent_names)
LabeledResolvedCount(resolved_agents, labeled_agent_names) ==
    Cardinality({agent \in resolved_agents : agent \in labeled_agent_names})

\* One iteration of the loop of rebuild_cache (lines 39-78) for problem p.
\* (Variant without the continue of lines 52-53.)
RebuildProblemNoSkip(ix, acc, p) ==
    LET resolved_agents == ResolvedAgents(ix, p)
        total_resolved == Cardinality(resolved_agents)
        labeled_resolved_count ==
            LabeledResolvedCount(resolved_agents, LabeledAgentNames(ix, p))
        r == RepoOf(p)
    IN  [ps |-> DictPut(acc.ps, p, <<labeled_resolved_count, total_resolved>>),
         issue |-> DictPut(acc.issue, r, DictGet(acc.issue, r, 0) + 1),
         fully |-> IF FullyLabeled(labeled_resolved_count, total_resolved)
                   THEN DictPut(acc.fully, r, DictGet(acc.fully, r, 0) + 1)
                   ELSE acc.fully]
RebuildProblem(ix, acc, p) ==
    LET resolved_agents == ResolvedAgents(ix, p)
        total_resolved == Cardinality(resolved_agents)
        labeled_resolved_count ==
            LabeledResolvedCount(resolved_agents, LabeledAgentNames(ix, p))
        r == RepoOf(p)
    IN  IF total_resolved = 0
        THEN acc
        ELSE [ps |-> DictPut(acc.ps, p, <<labeled_resolved_count, total_resolved>>),
              issue |-> DictPut(acc.issue, r, DictGet(acc.issue, r, 0) + 1),
              fully |-> IF FullyLabeled(labeled_resolved_count, total_resolved)
                        THEN DictPut(acc.fully, r, DictGet(acc.fully, r, 0) + 1)
                        ELSE acc.fully]

\* The loop of lines 39-78 over a sequence of problems.
RECURSIVE RebuildLoop(_, _, _)
RebuildLoop(ix, acc, todo) ==
    IF todo = <<>> THEN acc
    ELSE RebuildLoop(ix, RebuildProblem(ix, acc, Head(todo)), Tail(todo))

\* Lines 82-87: the tuple stored for one repository.
RebuildRepoTuple(acc, r) == <<DictGet(acc.fully, r, 0), acc.issue[r]>>

\* Lines 80-87: the repo mapping built from the local counters.
RebuildRepoStats(acc) == [r \in DOMAIN acc.issue |-> RebuildRepoTuple(acc, r)]

\* rebuild_cache, start to finish: both mappings it leaves.
RebuildResult(ix) ==
    LET acc == RebuildLoop(ix, RebuildStart, GetProblems(ix, ""))
    IN  [ps |-> acc.ps, rs |-> RebuildRepoStats(acc)]

\* Lines 124-128: the new labeled count.
\* (Variants without the min of line 126, and without the max of line 128.)
NewLabeledCountNoCap(labeled_count, total_count, has_label) ==
    IF has_label THEN labeled_count + 1 ELSE Max(labeled_count - 1, 0)
NewLabeledCountNoFloor(labeled_count, total_count, has_label) ==
    IF has_label THEN Min(labeled_count + 1, total_count) ELSE labeled_count - 1
NewLabeledCount(labeled_count, total_count, has_label) ==
    IF has_label
    THEN Min(labeled_count + 1, total_count)
    ELSE Max(labeled_count - 1, 0)

\* Lines 158-162: one problem's contribution to the recount, acc being
\* <<new_fully_labeled_count, new_total_issues_with_resolved_agents>>.
\* (Variant that tests prob_labeled == prob_total outside the prob_total > 0 branch.)
RecountProblemUnguarded(acc, prob_labeled, prob_total) ==
    <<acc[1] + (IF prob_labeled = prob_total THEN 1 ELSE 0),
      acc[2] + (IF prob_total > 0 THEN 1 ELSE 0)>>
RecountProblem(acc, prob_labeled, prob_total) ==
    IF prob_total > 0
    THEN <<acc[1] + (IF prob_labeled = prob_total THEN 1 ELSE 0), acc[2] + 1>>
    ELSE acc

\* Lines 150-162: the recount over the problems of a repository.
RECURSIVE RecountRepo(_, _, _)
RecountRepo(ps, todo, acc) ==
    IF todo = <<>> THEN acc
    ELSE LET t == GetProblemLabelStats(ps, Head(todo))
         IN  RecountRepo(ps, Tail(todo), RecountProblem(acc, t[1], t[2]))

\* _update_repo_stats_for_problem_change: the repo mapping after the recount.
\* (Variant that recounts over get_problems() without the repo filter.)
\* (Variant that recounts and stores the tuple of every repository.)
UpdateRepoStatsEveryRepo(ix, ps, rs, repo_name) ==
    [r \in (DOMAIN rs) \cup {RepoOf(q) : q \in ix.problems} |->
        RecountRepo(ps, GetProblems(ix, r), <<0, 0>>)]
UpdateRepoStatsAllProblems(ix, ps, rs, repo_name) ==
    DictPut(rs, repo_name, RecountRepo(ps, GetProblems(ix, ""), <<0, 0>>))
UpdateRepoStatsForProblemChange(ix, ps, rs, repo_name) ==
    DictPut(rs, repo_name, RecountRepo(ps, GetProblems(ix, repo_name), <<0, 0>>))

\* Lines 115-117: the agent has a resolved submission for the problem.
\* (Variant that tests only that the submission exists.)
IsResolvedSubmissionAnySubmission(ix, p, a) == a \in GetAllAgentSubmissions(ix, p)
IsResolvedSubmission(ix, p, a) ==
    a \in GetAllAgentSubmissions(ix, p) /\ ix.subs[a][p]

\* update_problem_label_stats: both mappings after the call.
\* (Variant that, for a problem absent from the mapping, takes the total from
\* the index instead of the (0, 0) default.)
UpdateResultLooksUpTotal(ix, ps, rs, p, a, has_label) ==
    IF ~IsResolvedSubmission(ix, p, a)
    THEN [ps |-> ps, rs |-> rs]
    ELSE LET t == DictGet(ps, p, <<0, Cardinality(ResolvedAgents(ix, p))>>)
             ps2 == DictPut(ps, p, <<NewLabeledCount(t[1], t[2], has_label), t[2]>>)
         IN  [ps |-> ps2,
              rs |-> IF GetProblem(ix, p)
                     THEN UpdateRepoStatsForProblemChange(ix, ps2, rs, RepoOf(p))
                     ELSE rs]
UpdateResult(ix, ps, rs, p, a, has_label) ==
    IF ~IsResolvedSubmission(ix, p, a)
    THEN [ps |-> ps, rs |-> rs]
    ELSE LET t == GetProblemLabelStats(ps, p)
             ps2 == DictPut(ps, p, <<NewLabeledCount(t[1], t[2], has_label), t[2]>>)
         IN  [ps |-> ps2,
              rs |-> IF GetProblem(ix, p)
                     THEN UpdateRepoStatsForProblemChange(ix, ps2, rs, RepoOf(p))
                     ELSE rs]


(***************************************************************************)
(* Bookkeeping of the operation that produced a state.                     *)
(*   op  : the operation                                                   *)
(*   p,a : its problem and agent arguments ("-" when it has none)          *)
(*   upd : the update_problem_label_stats call it made: "none", "add"      *)
(*         (has_label=True) or "remove" (has_label=False)                  *)
(*   pre : a label file existed for <<p, a>> when the operation began      *)
(*   old : the tuple get_problem_label_stats(p) gave when the operation    *)
(*         began (<<0, 0>> when the operation has no problem argument)     *)
(*         (for rebuild_cache: it found tuples and the mappings it found   *)
(*         differ from the ones it leaves; for the admin refresh: its scan *)
(*         changed the index)                                              *)
(*   scn : how far the calls so far have followed the end-to-end scenario  *)
(*         (0: not at all; 1..5: see ScenarioStep)                         *)
(*   again : the operation is a rebuild_cache that directly follows a      *)
(*         rebuild_cache                                                   *)
(***************************************************************************)
OpFull(op, p, a, upd, pre, old, scn, again) ==
    [op |-> op, p |-> p, a |-> a, upd |-> upd, pre |-> pre, old |-> old,
     scn |-> scn, again |-> again]

OpOld(op, p, a, upd, pre, old) == OpFull(op, p, a, upd, pre, old, 0, FALSE)

Op(op, p, a, upd, pre) == OpOld(op, p, a, upd, pre, <<0, 0>>)

UpdName(has_label) == IF has_label THEN "add" ELSE "remove"

(***************************************************************************)
(* The end-to-end scenario: repository acme__widget has P1 with resolved   *)
(* agents X, Y, Z and P2 with none, and neither problem has a label.       *)
(* Position 1 is reached by rebuild_cache, 2 by update(P1, X, True), 3 by  *)
(* update(P1, Y, True), 4 by update(P1, Z, True), 5 by                     *)
(* update(P1, Z, False); any other call leaves the scenario.               *)
(***************************************************************************)
ScenarioStart ==
    /\ GetProblems(Scanner, "acme__widget") = <<"P1", "P2">>
    /\ ResolvedAgents(Scanner, "P1") = {"X", "Y", "Z"}
    /\ ResolvedAgents(Scanner, "P2") = {}
    /\ \A a \in Agents : <<"P1", a>> \notin labels /\ <<"P2", a>> \notin labels

ScenarioStep(scn, p, a, has_label) ==
    IF scn = 1 /\ <<p, a, has_label>> = <<"P1", "X", TRUE>> THEN 2
    ELSE IF scn = 2 /\ <<p, a, has_label>> = <<"P1", "Y", TRUE>> THEN 3
    ELSE IF scn = 3 /\ <<p, a, has_label>> = <<"P1", "Z", TRUE>> THEN 4
    ELSE IF scn = 4 /\ <<p, a, has_label>> = <<"P1", "Z", FALSE>> THEN 5
    ELSE 0

(***************************************************************************)
(* Initial state: the objects as constructed (scanner and cache empty),    *)
(* over a data directory and a label directory found on disk.              *)
(***************************************************************************)
\* Patch files found on disk when the process starts: every agent has a patch for
\* every problem, or only two patch files exist and no agent has one for P3.
FullPatches == Agents \X Problems
SparsePatches == {<<"X", "P1">>, <<"Y", "P2">>}

\* The results.json contents found on disk when the process starts: the
\* resolved agents of each problem.
ResolvedConfigs ==
    { (r1 \X {"P1"}) \cup (r23[1] \X {"P2"}) \cup (r23[2] \X {"P3"}) :
        r1 \in {{"X", "Y", "Z"}, {"X", "Y"}},
        r23 \in {<<{}, {}>>, <<{"Y"}, {"Z"}>>} }
    \cup {Agents \X {"P1", "P2"}}

Init ==
    /\ disk_agents = Agents
    /\ disk_resolved \in ResolvedConfigs
    /\ disk_patches \in {FullPatches} \cup
                        (IF disk_resolved = Agents \X {"P1", "P2"}
                         THEN {SparsePatches} ELSE {})
    /\ agents = {}
    /\ problems = {}
    /\ agent_submissions = EmptyDict
    /\ labels = {}
    /\ drafts = {}
    /\ label_text = EmptyDict
    /\ draft_text = EmptyDict
    /\ cd_pc = "idle"
    /\ cd_key = <<"-", "-">>
    /\ cd_content = "-"
    /\ up_pc = [t \in Threads |-> "idle"]
    /\ up_arg = [t \in Threads |-> <<"-", "-", FALSE>>]
    /\ up_old = [t \in Threads |-> <<0, 0>>]
    /\ up_todo = [t \in Threads |-> <<>>]
    /\ up_acc = [t \in Threads |-> <<0, 0>>]
    /\ up_seen = [t \in Threads |-> EmptyDict]
    /\ up_writer = "-"
    /\ problem_stats = EmptyDict
    /\ repo_stats = EmptyDict
    /\ phase = "constructed"
    /\ built = FALSE
    /\ last = Op("none", "-", "-", "none", FALSE)
    /\ ret = "None"
    /\ rb_pc = "idle"
    /\ rb_todo = <<>>
    /\ rb_acc = [issue |-> EmptyDict, fully |-> EmptyDict]
    /\ rb_repo_todo = <<>>
    /\ rb_old = [ps |-> EmptyDict, rs |-> EmptyDict]
    /\ rb_new = [ps |-> EmptyDict, rs |-> EmptyDict]

(***************************************************************************)
(* Operations                                                              *)
(***************************************************************************)
\* scan_data: the scanner's state after scanning the disk.
ScanResult(ix) ==
    LET ids == AllProblemIds(disk_agents, disk_patches)
    IN  [agents |-> ScanAgents(disk_agents),
         problems |-> ScanProblems(ix.problems, ids),
         subs |-> ScanSubmissions(ix.subs, ScanAgents(disk_agents), ids,
                                  disk_resolved)]

ScanData ==
    /\ agents' = ScanResult(Scanner).agents
    /\ problems' = ScanResult(Scanner).problems
    /\ agent_submissions' = ScanResult(Scanner).subs

\* lifespan (main.py): the startup handler, up to its yield.
Lifespan ==
    /\ phase = "constructed"
    /\ ScanData
    /\ phase' = "serving"
    /\ built' = FALSE
    /\ last' = Op("lifespan", "-", "-", "none", FALSE)
    /\ ret' = "None"
    /\ UNCHANGED <<up_vars, disk_vars, file_vars, store_vars, cache_vars,
                   rb_vars>>

\* rebuild_cache, run without interruption.
\* (Variant that rescans the index itself before counting.)
RebuildCacheScans ==
    /\ rb_pc = "idle"
    /\ ScanData
    /\ problem_stats' = RebuildResult(ScanResult(Scanner)).ps
    /\ repo_stats' = RebuildResult(ScanResult(Scanner)).rs
    /\ built' = TRUE
    /\ last' = OpFull("rebuild", "-", "-", "none", FALSE, <<0, 0>>, 0,
                      last.op = "rebuild")
    /\ ret' = "None"
    /\ UNCHANGED <<up_vars, disk_vars, file_vars, store_vars, phase, rb_vars>>
RebuildCache ==
    /\ rb_pc = "idle"
    /\ problem_stats' = RebuildResult(Scanner).ps
    /\ repo_stats' = RebuildResult(Scanner).rs
    /\ built' = TRUE
    /\ last' = OpFull("rebuild", "-", "-", "none",
                      /\ DOMAIN problem_stats # {}
                      /\ <<problem_stats, repo_stats>>
                            # <<RebuildResult(Scanner).ps, RebuildResult(Scanner).rs>>,
                      <<0, 0>>,
                      IF ScenarioStart THEN 1 ELSE 0, last.op = "rebuild")
    /\ ret' = "None"
    /\ UNCHANGED <<up_vars, disk_vars, file_vars, scanner_vars, store_vars,
                   phase, rb_vars>>

\* update_problem_label_stats(p, a, has_label), called directly.
UpdateProblemLabelStats(p, a, has_label) ==
    /\ rb_pc = "idle"
    /\ problem_stats' = UpdateResult(Scanner, problem_stats, repo_stats, p, a, has_label).ps
    /\ repo_stats' = UpdateResult(Scanner, problem_stats, repo_stats, p, a, has_label).rs
    /\ last' = OpFull("update", p, a, UpdName(has_label), <<p, a>> \in labels,
                      GetProblemLabelStats(problem_stats, p),
                      ScenarioStep(last.scn, p, a, has_label), FALSE)
    /\ ret' = "None"
    /\ UNCHANGED <<up_vars, disk_vars, file_vars, scanner_vars, store_vars,
                   phase, built, rb_vars>>

\* get_problem_label_stats(p), called by a reader.
ReadProblemStats(p) ==
    /\ ret' = GetProblemLabelStats(problem_stats, p)
    /\ last' = Op("get_problem", p, "-", "none", FALSE)
    /\ UNCHANGED <<up_vars, disk_vars, file_vars, scanner_vars, store_vars,
                   cache_vars, phase, built,
                   rb_vars>>

\* get_repo_label_stats(r), called by a reader.
ReadRepoStats(r) ==
    /\ ret' = GetRepoLabelStats(repo_stats, r)
    /\ last' = Op("get_repo", r, "-", "none", FALSE)
    /\ UNCHANGED <<up_vars, disk_vars, file_vars, scanner_vars, store_vars,
                   cache_vars, phase, built,
                   rb_vars>>

\* FileService.save_label called on its own: the store changes, the cache is not told.
FileSaveLabel(p, a) ==
    /\ rb_pc = "idle"
    /\ Cardinality(StoreSaveLabel(labels, p, a)) <= MaxLabels
    /\ labels' = StoreSaveLabel(labels, p, a)
    /\ last' = Op("file_save", "-", "-", "none", FALSE)
    /\ ret' = "None"
    /\ UNCHANGED <<up_vars, disk_vars, file_vars, scanner_vars, drafts,
                   cache_vars, phase, built, rb_vars>>

\* FileService.delete_label called on its own, for a label that exists.
FileDeleteLabel(p, a) ==
    /\ rb_pc = "idle"
    /\ <<p, a>> \in labels
    /\ labels' = StoreDeleteLabel(labels, p, a)
    /\ last' = Op("file_delete", "-", "-", "none", FALSE)
    /\ ret' = "None"
    /\ UNCHANGED <<up_vars, disk_vars, file_vars, scanner_vars, drafts,
                   cache_vars, phase, built, rb_vars>>

\* POST /admin/refresh: scan_data, then rebuild_cache over the fresh index.
\* The record's pre field tells whether the scan changed the index.
\* (Variant that calls rebuild_cache before scan_data.)
RefreshDataRebuildFirst ==
    /\ phase = "serving"
    /\ rb_pc = "idle"
    /\ ScanData
    /\ UNCHANGED <<up_vars, disk_vars, file_vars, store_vars, phase, rb_vars>>
    /\ problem_stats' = RebuildResult(Scanner).ps
    /\ repo_stats' = RebuildResult(Scanner).rs
    /\ built' = TRUE
    /\ last' = Op("refresh", "-", "-", "none", Scanner # ScanResult(Scanner))
    /\ ret' = "None"
RefreshData ==
    /\ phase = "serving"
    /\ rb_pc = "idle"
    /\ ScanData
    /\ UNCHANGED <<up_vars, disk_vars, file_vars, store_vars, phase, rb_vars>>
    /\ problem_stats' = RebuildResult(ScanResult(Scanner)).ps
    /\ repo_stats' = RebuildResult(ScanResult(Scanner)).rs
    /\ built' = TRUE
    /\ last' = Op("refresh", "-", "-", "none", Scanner # ScanResult(Scanner))
    /\ ret' = "None"

(***************************************************************************)
(* The cache as a component: any sequence of calls of its entry points,    *)
(* and the admin refresh, over a label store that changes underneath it.   *)
(***************************************************************************)
Next ==
    \/ Lifespan
    \/ RebuildCache
    \/ \E p \in Problems, a \in Agents, h \in BOOLEAN : UpdateProblemLabelStats(p, a, h)
    \/ \E p \in Problems : ReadProblemStats(p)
    \/ \E r \in Repos : ReadRepoStats(r)
    \/ RefreshData
    \/ \E p \in Problems, a \in Agents : FileSaveLabel(p, a)
    \/ \E p \in Problems, a \in Agents : FileDeleteLabel(p, a)

Spec == Init /\ [][Next]_vars

(***************************************************************************)
(* A caller that tells the cache of every label transition, once: the      *)
(* store mutation followed by the matching update call.                    *)
(***************************************************************************)
\* A label that did not exist is saved and update(p, a, True) is called.
LabelAdded(p, a) ==
    /\ <<p, a>> \notin labels
    /\ Cardinality(StoreSaveLabel(labels, p, a)) <= MaxLabels
    /\ labels' = StoreSaveLabel(labels, p, a)
    /\ problem_stats' = UpdateResult(Scanner, problem_stats, repo_stats, p, a, TRUE).ps
    /\ repo_stats' = UpdateResult(Scanner, problem_stats, repo_stats, p, a, TRUE).rs
    /\ last' = OpOld("label_added", p, a, "add", FALSE,
                     GetProblemLabelStats(problem_stats, p))
    /\ ret' = "None"
    /\ UNCHANGED <<up_vars, disk_vars, file_vars, scanner_vars, drafts, phase,
                   built, rb_vars>>

\* A label that existed is deleted and update(p, a, False) is called.
LabelRemoved(p, a) ==
    /\ <<p, a>> \in labels
    /\ labels' = StoreDeleteLabel(labels, p, a)
    /\ problem_stats' = UpdateResult(Scanner, problem_stats, repo_stats, p, a, FALSE).ps
    /\ repo_stats' = UpdateResult(Scanner, problem_stats, repo_stats, p, a, FALSE).rs
    /\ last' = OpOld("label_removed", p, a, "remove", TRUE,
                     GetProblemLabelStats(problem_stats, p))
    /\ ret' = "None"
    /\ UNCHANGED <<up_vars, disk_vars, file_vars, scanner_vars, drafts, phase,
                   built, rb_vars>>

NextDisc ==
    \/ Lifespan
    \/ RebuildCache
    \/ \E p \in Problems, a \in Agents : LabelAdded(p, a)
    \/ \E p \in Problems, a \in Agents : LabelRemoved(p, a)
    \/ \E r \in Repos : ReadRepoStats(r)

SpecDisc == Init /\ [][NextDisc]_vars

(***************************************************************************)
(* The API layer (api/labels.py, api/admin.py): one action per request     *)
(* that passes the 404 checks on the index, answered without an error or  *)
(* (the ...Fails actions) with the error of a failed store operation.      *)
(***************************************************************************)
\* POST /labels/{problem_id}/{agent_name}
SaveLabel(p, a) ==
    /\ phase = "serving"
    /\ GetProblem(Scanner, p)
    /\ HasSubmission(Scanner, a, p)
    /\ Cardinality(StoreSaveLabel(labels, p, a)) <= MaxLabels
    /\ labels' = StoreSaveLabel(labels, p, a)
    /\ problem_stats' = UpdateResult(Scanner, problem_stats, repo_stats, p, a, TRUE).ps
    /\ repo_stats' = UpdateResult(Scanner, problem_stats, repo_stats, p, a, TRUE).rs
    /\ last' = OpOld("save_label", p, a, "add", <<p, a>> \in labels,
                     GetProblemLabelStats(problem_stats, p))
    /\ ret' = "None"
    /\ UNCHANGED <<up_vars, disk_vars, file_vars, scanner_vars, drafts, phase,
                   built, rb_vars>>

\* DELETE /labels/{problem_id}/{agent_name}
DeleteLabel(p, a) ==
    /\ phase = "serving"
    /\ GetProblem(Scanner, p)
    /\ <<p, a>> \in labels
    /\ labels' = StoreDeleteLabel(labels, p, a)
    /\ problem_stats' = UpdateResult(Scanner, problem_stats, repo_stats, p, a, FALSE).ps
    /\ repo_stats' = UpdateResult(Scanner, problem_stats, repo_stats, p, a, FALSE).rs
    /\ last' = OpOld("delete_label", p, a, "remove", TRUE,
                     GetProblemLabelStats(problem_stats, p))
    /\ ret' = "None"
    /\ UNCHANGED <<up_vars, disk_vars, file_vars, scanner_vars, drafts, phase,
                   built, rb_vars>>

\* POST /labels/{problem_id}/{agent_name}/draft
\* (Variant that tells the cache of the draft as if it were a label.)
SaveDraftUpdatesCache(p, a) ==
    /\ phase = "serving"
    /\ GetProblem(Scanner, p)
    /\ HasSubmission(Scanner, a, p)
    /\ Cardinality(drafts \cup {<<p, a>>}) <= MaxDrafts
    /\ drafts' = drafts \cup {<<p, a>>}
    /\ problem_stats' = UpdateResult(Scanner, problem_stats, repo_stats, p, a, TRUE).ps
    /\ repo_stats' = UpdateResult(Scanner, problem_stats, repo_stats, p, a, TRUE).rs
    /\ last' = Op("save_draft", p, a, "none", <<p, a>> \in labels)
    /\ ret' = "None"
    /\ UNCHANGED <<up_vars, disk_vars, file_vars, scanner_vars, labels, phase,
                   built, rb_vars>>
SaveDraft(p, a) ==
    /\ phase = "serving"
    /\ GetProblem(Scanner, p)
    /\ HasSubmission(Scanner, a, p)
    /\ Cardinality(drafts \cup {<<p, a>>}) <= MaxDrafts
    /\ drafts' = drafts \cup {<<p, a>>}
    /\ last' = Op("save_draft", p, a, "none", <<p, a>> \in labels)
    /\ ret' = "None"
    /\ UNCHANGED <<up_vars, disk_vars, file_vars, scanner_vars, labels,
                   cache_vars, phase, built, rb_vars>>

\* DELETE /labels/{problem_id}/{agent_name}/draft
DeleteDraft(p, a) ==
    /\ phase = "serving"
    /\ GetProblem(Scanner, p)
    /\ <<p, a>> \in drafts
    /\ drafts' = drafts \ {<<p, a>>}
    /\ last' = Op("delete_draft", p, a, "none", <<p, a>> \in labels)
    /\ ret' = "None"
    /\ UNCHANGED <<up_vars, disk_vars, file_vars, scanner_vars, labels,
                   cache_vars, phase, built, rb_vars>>

\* POST /labels/{problem_id}/{agent_name}/commit
CommitDraft(p, a) ==
    /\ phase = "serving"
    /\ GetProblem(Scanner, p)
    /\ HasSubmission(Scanner, a, p)
    /\ <<p, a>> \in drafts
    /\ Cardinality(StoreSaveLabel(labels, p, a)) <= MaxLabels
    /\ labels' = StoreSaveLabel(labels, p, a)
    /\ drafts' = drafts \ {<<p, a>>}
    /\ problem_stats' = UpdateResult(Scanner, problem_stats, repo_stats, p, a, TRUE).ps
    /\ repo_stats' = UpdateResult(Scanner, problem_stats, repo_stats, p, a, TRUE).rs
    /\ last' = OpOld("commit_draft", p, a, "add", <<p, a>> \in labels,
                     GetProblemLabelStats(problem_stats, p))
    /\ ret' = "None"
    /\ UNCHANGED <<up_vars, disk_vars, file_vars, scanner_vars, phase, built,
                   rb_vars>>

\* POST /labels/{problem_id}/{agent_name} when file_service.save_label raises
\* (labels.py line 119): the exception leaves the endpoint before line 122.
\* The failure is either at open (no file change) or at write, after open
\* created the file.
\* (Variant of the endpoint that calls the cache before the store.)
SaveLabelFailsUpdateFirst(p, a, created) ==
    /\ phase = "serving"
    /\ GetProblem(Scanner, p)
    /\ HasSubmission(Scanner, a, p)
    /\ labels' = IF created THEN StoreSaveLabel(labels, p, a) ELSE labels
    /\ Cardinality(labels') <= MaxLabels
    /\ problem_stats' = UpdateResult(Scanner, problem_stats, repo_stats, p, a, TRUE).ps
    /\ repo_stats' = UpdateResult(Scanner, problem_stats, repo_stats, p, a, TRUE).rs
    /\ last' = Op("save_label_error", "-", "-", "none", FALSE)
    /\ ret' = "None"
    /\ UNCHANGED <<up_vars, disk_vars, file_vars, scanner_vars, drafts, phase,
                   built, rb_vars>>
SaveLabelFails(p, a, created) ==
    /\ phase = "serving"
    /\ GetProblem(Scanner, p)
    /\ HasSubmission(Scanner, a, p)
    /\ labels' = IF created THEN StoreSaveLabel(labels, p, a) ELSE labels
    /\ Cardinality(labels') <= MaxLabels
    /\ last' = Op("save_label_error", "-", "-", "none", FALSE)
    /\ ret' = "None"
    /\ UNCHANGED <<up_vars, disk_vars, file_vars, scanner_vars, drafts,
                   cache_vars, phase, built,
                   rb_vars>>

\* DELETE /labels/{problem_id}/{agent_name} when file_service.delete_label
\* returns False (labels.py lines 148-152): there is no label file, or
\* unlink failed (unlink_fails) and the file stays.
DeleteLabelFails(p, a, unlink_fails) ==
    /\ phase = "serving"
    /\ GetProblem(Scanner, p)
    /\ <<p, a>> \notin labels \/ unlink_fails
    /\ last' = Op("delete_label_error", "-", "-", "none", FALSE)
    /\ ret' = "None"
    /\ UNCHANGED <<up_vars, disk_vars, file_vars, scanner_vars, store_vars,
                   cache_vars, phase, built,
                   rb_vars>>

\* POST /labels/{problem_id}/{agent_name}/commit when file_service.commit_draft
\* raises RuntimeError (labels.py lines 241-242): there is no draft file, or
\* reading or renaming it failed (rename_fails) and both files stay.
CommitDraftFails(p, a, rename_fails) ==
    /\ phase = "serving"
    /\ GetProblem(Scanner, p)
    /\ HasSubmission(Scanner, a, p)
    /\ <<p, a>> \notin drafts \/ rename_fails
    /\ last' = Op("commit_draft_error", "-", "-", "none", FALSE)
    /\ ret' = "None"
    /\ UNCHANGED <<up_vars, disk_vars, file_vars, scanner_vars, store_vars,
                   cache_vars, phase, built,
                   rb_vars>>

\* Every request on every key, each store operation succeeding.
NextApi ==
    \/ Lifespan
    \/ \E p \in Problems, a \in Agents : SaveLabel(p, a)
    \/ \E p \in Problems, a \in Agents : DeleteLabel(p, a)
    \/ \E p \in Problems, a \in Agents : SaveDraft(p, a)
    \/ \E p \in Problems, a \in Agents : DeleteDraft(p, a)
    \/ \E p \in Problems, a \in Agents : CommitDraft(p, a)
    \/ RefreshData
    \/ \E p \in Problems : ReadProblemStats(p)
    \/ \E r \in Repos : ReadRepoStats(r)

SpecApi == Init /\ [][NextApi]_vars

\* The mutation requests, those whose store operation fails included, and
\* the admin refresh, for the keys of StoreKeys.
NextRequests ==
    \/ Lifespan
    \/ \E k \in StoreKeys : SaveLabel(k[1], k[2])
    \/ \E k \in StoreKeys : DeleteLabel(k[1], k[2])
    \/ \E k \in StoreKeys : SaveDraft(k[1], k[2])
    \/ \E k \in StoreKeys : DeleteDraft(k[1], k[2])
    \/ \E k \in StoreKeys : CommitDraft(k[1], k[2])
    \/ \E k \in StoreKeys, created \in BOOLEAN :
          SaveLabelFails(k[1], k[2], created)
    \/ \E k \in StoreKeys, unlink_fails \in BOOLEAN :
          DeleteLabelFails(k[1], k[2], unlink_fails)
    \/ \E k \in StoreKeys, rename_fails \in BOOLEAN :
          CommitDraftFails(k[1], k[2], rename_fails)
    \/ RefreshData

SpecRequests == Init /\ [][NextRequests]_vars

(***************************************************************************)
(* rebuild_cache statement by statement, running on one thread while       *)
(* other threads serve reads (FastAPI runs def endpoints on a thread pool).*)
(***************************************************************************)
RbStep(pc) == Op("rebuild_step", pc, "-", "none", FALSE)

\* Line 29: self._problem_stats.clear()
RbClearProblemStats ==
    /\ rb_pc = "idle"
    /\ phase = "serving"
    /\ rb_old' = [ps |-> problem_stats, rs |-> repo_stats]
    /\ rb_new' = RebuildResult(Scanner)
    /\ problem_stats' = EmptyDict
    /\ rb_pc' = "clear_repo"
    /\ last' = RbStep("clear_problem")
    /\ ret' = "None"
    /\ UNCHANGED <<up_vars, disk_vars, file_vars, scanner_vars, store_vars,
                   repo_stats, phase, built,
                   rb_todo, rb_acc, rb_repo_todo>>

\* Line 30: self._repo_stats.clear()
RbClearRepoStats ==
    /\ rb_pc = "clear_repo"
    /\ repo_stats' = EmptyDict
    /\ rb_pc' = "get_problems"
    /\ last' = RbStep("clear_repo")
    /\ ret' = "None"
    /\ UNCHANGED <<up_vars, disk_vars, file_vars, scanner_vars, store_vars,
                   problem_stats, phase, built,
                   rb_todo, rb_acc, rb_repo_todo, rb_old, rb_new>>

\* Lines 33-37: all_problems and the two local counters.
RbGetProblems ==
    /\ rb_pc = "get_problems"
    /\ rb_todo' = GetProblems(Scanner, "")
    /\ rb_acc' = [issue |-> EmptyDict, fully |-> EmptyDict]
    /\ rb_pc' = "loop"
    /\ last' = RbStep("get_problems")
    /\ ret' = "None"
    /\ UNCHANGED <<up_vars, disk_vars, file_vars, scanner_vars, store_vars,
                   cache_vars, phase, built,
                   rb_repo_todo, rb_old, rb_new>>

\* Lines 39-78: one iteration of the loop over all_problems.
RbProblem ==
    /\ rb_pc = "loop"
    /\ rb_todo # <<>>
    /\ LET acc == RebuildProblem(Scanner,
                                 [ps |-> problem_stats, issue |-> rb_acc.issue,
                                  fully |-> rb_acc.fully],
                                 Head(rb_todo))
       IN  /\ problem_stats' = acc.ps
           /\ rb_acc' = [issue |-> acc.issue, fully |-> acc.fully]
    /\ rb_todo' = Tail(rb_todo)
    /\ last' = RbStep("problem")
    /\ ret' = "None"
    /\ UNCHANGED <<up_vars, disk_vars, file_vars, scanner_vars, store_vars,
                   repo_stats, phase, built,
                   rb_pc, rb_repo_todo, rb_old, rb_new>>

\* Line 81: the loop over all_problems is over, the loop over the repositories begins.
RbProblemsDone ==
    /\ rb_pc = "loop"
    /\ rb_todo = <<>>
    /\ rb_repo_todo' = SortedSeq(RepoOrder, DOMAIN rb_acc.issue)
    /\ rb_pc' = "store"
    /\ last' = RbStep("problems_done")
    /\ ret' = "None"
    /\ UNCHANGED <<up_vars, disk_vars, file_vars, scanner_vars, store_vars,
                   cache_vars, phase, built,
                   rb_todo, rb_acc, rb_old, rb_new>>

\* Lines 82-87: one iteration of the loop over repo_issue_counts.
RbStoreRepo ==
    /\ rb_pc = "store"
    /\ rb_repo_todo # <<>>
    /\ repo_stats' =
           DictPut(repo_stats, Head(rb_repo_todo),
                   RebuildRepoTuple([ps |-> problem_stats, issue |-> rb_acc.issue,
                                     fully |-> rb_acc.fully],
                                    Head(rb_repo_todo)))
    /\ rb_repo_todo' = Tail(rb_repo_todo)
    /\ last' = RbStep("store_repo")
    /\ ret' = "None"
    /\ UNCHANGED <<up_vars, disk_vars, file_vars, scanner_vars, store_vars,
                   problem_stats, phase, built,
                   rb_pc, rb_todo, rb_acc, rb_old, rb_new>>

\* rebuild_cache returns.
RbReturn ==
    /\ rb_pc = "store"
    /\ rb_repo_todo = <<>>
    /\ rb_pc' = "idle"
    /\ built' = TRUE
    /\ last' = Op("rebuild", "-", "-", "none", FALSE)
    /\ ret' = "None"
    /\ UNCHANGED <<up_vars, disk_vars, file_vars, scanner_vars, store_vars,
                   cache_vars, phase,
                   rb_todo, rb_acc, rb_repo_todo, rb_old, rb_new>>

\* Label requests are served between rebuilds, reads at any time.
NextRebuild ==
    \/ Lifespan
    \/ RbClearProblemStats
    \/ RbClearRepoStats
    \/ RbGetProblems
    \/ RbProblem
    \/ RbProblemsDone
    \/ RbStoreRepo
    \/ RbReturn
    \/ \E p \in Problems : ReadProblemStats(p)
    \/ \E r \in Repos : ReadRepoStats(r)
    \/ \E p \in Problems, a \in Agents : rb_pc = "idle" /\ LabelAdded(p, a)
    \/ \E p \in Problems, a \in Agents : rb_pc = "idle" /\ LabelRemoved(p, a)

SpecRebuild == Init /\ [][NextRebuild]_vars

(***************************************************************************)
(* What the Submission Index and the Label Store say, counted directly.    *)
(***************************************************************************)
IndexTotal(p) == Cardinality(ResolvedAgents(Scanner, p))

IndexLabeled(p) == Cardinality({a \in ResolvedAgents(Scanner, p) : <<p, a>> \in labels})

IndexRepoTuple(r) ==
    <<Cardinality({p \in problems : /\ RepoOf(p) = r
                                    /\ IndexTotal(p) > 0
                                    /\ IndexLabeled(p) = IndexTotal(p)}),
      Cardinality({p \in problems : RepoOf(p) = r /\ IndexTotal(p) > 0})>>

(***************************************************************************)
(* Properties of the cache as a component (specification Spec)             *)
(***************************************************************************)

\* C1: in every state reachable by rebuild_cache and update_problem_label_stats
\* calls with arbitrary arguments, every tuple of the problem mapping satisfies
\* 0 <= labeled_resolved_count <= total_resolved_count.
C1_ProblemTupleBounds ==
    \A p \in DOMAIN problem_stats :
        /\ 0 <= problem_stats[p][1]
        /\ problem_stats[p][1] <= problem_stats[p][2]

\* A has_label=False call for a resolved agent found the labeled count at 0.
C1_Witness ==
    /\ last.op = "update"
    /\ last.upd = "remove"
    /\ last.a \in ResolvedAgents(Scanner, last.p)
    /\ last.old[1] = 0
    /\ last.old[2] > 0
    /\ last.p \in DOMAIN problem_stats

\* C2: when rebuild_cache returns, every problem with a resolved agent has the
\* tuple (resolved agents with a label in the store, resolved agents), and every
\* repository reads as (fully labeled problems, problems with a resolved agent),
\* both counted from the index and the label store.
C2_RebuildConsistent ==
    last.op = "rebuild" =>
        /\ \A p \in Problems :
              IndexTotal(p) > 0 =>
                  /\ p \in DOMAIN problem_stats
                  /\ problem_stats[p] = <<IndexLabeled(p), IndexTotal(p)>>
        /\ \A r \in Repos : GetRepoLabelStats(repo_stats, r) = IndexRepoTuple(r)

\* rebuild_cache returned over a store that holds a label of a resolved agent and
\* a label of an agent that did not resolve the same problem.
C2_Witness ==
    /\ last.op = "rebuild"
    /\ \E p \in DOMAIN problem_stats :
          /\ problem_stats[p][1] >= 1
          /\ \E a \in Agents : <<p, a>> \in labels /\ a \notin ResolvedAgents(Scanner, p)

\* C8: in every state reachable by rebuild_cache and update_problem_label_stats
\* calls, every tuple of the repo mapping satisfies
\* 0 <= fully_labeled_issue_count <= total_issues_with_resolved_agents.
C8_RepoTupleBounds ==
    \A r \in DOMAIN repo_stats :
        /\ 0 <= repo_stats[r][1]
        /\ repo_stats[r][1] <= repo_stats[r][2]

\* An update recounted a repository that has a problem without a tuple beside a
\* fully labeled one.
C8_Witness ==
    /\ last.op = "update"
    /\ last.a \in ResolvedAgents(Scanner, last.p)
    /\ RepoOf(last.p) \in DOMAIN repo_stats
    /\ repo_stats[RepoOf(last.p)][1] >= 1
    /\ \E q \in problems : RepoOf(q) = RepoOf(last.p) /\ q \notin DOMAIN problem_stats

\* C9: update_problem_label_stats(p, a, has_label) changes neither mapping when
\* agent a has no submission for p or its submission is not resolved.
C9_NoOpOnUnresolved ==
    [][ (last'.op = "update" /\ last'.a \notin ResolvedAgents(Scanner, last'.p))
            => (problem_stats' = problem_stats /\ repo_stats' = repo_stats) ]_vars

\* has_label=True was sent for an agent whose submission exists and is not
\* resolved, on a problem whose tuple had room for an increment.
C9_Witness ==
    /\ last.op = "update"
    /\ last.upd = "add"
    /\ last.a \in GetAllAgentSubmissions(Scanner, last.p)
    /\ last.a \notin ResolvedAgents(Scanner, last.p)
    /\ last.p \in DOMAIN problem_stats
    /\ problem_stats[last.p][1] < problem_stats[last.p][2]

\* C10: update_problem_label_stats with has_label=True for a resolved agent
\* stores min(labeled + 1, total) and keeps total, so labeled == total stays.
C10_Cap ==
    (last.op = "update" /\ last.upd = "add" /\ last.a \in ResolvedAgents(Scanner, last.p))
        => /\ last.p \in DOMAIN problem_stats
           /\ problem_stats[last.p] = <<Min(last.old[1] + 1, last.old[2]), last.old[2]>>
           /\ (last.old[1] = last.old[2] => problem_stats[last.p][1] = last.old[2])

\* has_label=True was sent for a resolved agent of a problem whose tuple was (3, 3).
C10_Witness ==
    /\ last.op = "update"
    /\ last.upd = "add"
    /\ last.a \in ResolvedAgents(Scanner, last.p)
    /\ last.old = <<3, 3>>

(***************************************************************************)
(* Properties of the cache under its callers                               *)
(***************************************************************************)

\* C3: after rebuild_cache and any sequence of update calls that each match one
\* real label add or remove, get_repo_label_stats(r) equals, for every repository,
\* what rebuild_cache would compute from the current index and label store.
C3_RepoStatsMatchRebuild ==
    built =>
        \A r \in Repos :
            GetRepoLabelStats(repo_stats, r)
                = GetRepoLabelStats(RebuildResult(Scanner).rs, r)

\* After a rebuild, a label was added for a resolved agent and its repository now
\* counts a fully labeled problem beside one that is not.
C3_Witness ==
    /\ built
    /\ last.op = "label_added"
    /\ last.a \in ResolvedAgents(Scanner, last.p)
    /\ repo_stats[RepoOf(last.p)] = <<1, 2>>

\* C4: after a rebuild followed by save-label, delete-label and commit-draft
\* requests, the cached labeled_resolved_count of every problem is the number of
\* its resolved agents that have a label in the store.
C4_LabeledCountMirrorsStore ==
    built =>
        \A p \in Problems :
            GetProblemLabelStats(problem_stats, p)[1] = IndexLabeled(p)

\* C5: an endpoint sends has_label=True only when the label did not exist before
\* the request and exists after it, and has_label=False only when it existed
\* before and does not exist after.
C5_OneCallPerTransition ==
    last.op \in {"save_label", "delete_label", "commit_draft"} =>
        /\ last.upd = "add" => (~last.pre /\ <<last.p, last.a>> \in labels)
        /\ last.upd = "remove" => (last.pre /\ <<last.p, last.a>> \notin labels)

\* C6: when the startup handler has completed, rebuild_cache has run: every
\* problem with resolved agents reads as its tuple (not as (0, 0)) and every
\* repository reads as its counts.
C6_BuiltAtStartup ==
    last.op = "lifespan" =>
        /\ \A p \in Problems :
              IndexTotal(p) > 0 =>
                  GetProblemLabelStats(problem_stats, p)
                      = <<IndexLabeled(p), IndexTotal(p)>>
        /\ \A r \in Repos : GetRepoLabelStats(repo_stats, r) = IndexRepoTuple(r)

\* C7: a read made while rebuild_cache is in progress returns what the mappings
\* held before the rebuild began or what they hold when it is over.
C7_ReadSeesOldOrNew ==
    rb_pc # "idle" =>
        /\ last.op = "get_problem" =>
              ret \in {GetProblemLabelStats(rb_old.ps, last.p),
                       GetProblemLabelStats(rb_new.ps, last.p)}
        /\ last.op = "get_repo" =>
              ret \in {GetRepoLabelStats(rb_old.rs, last.p),
                       GetRepoLabelStats(rb_new.rs, last.p)}

(***************************************************************************)
(* Further properties of the cache as a component (specification Spec)     *)
(***************************************************************************)

\* C11: update_problem_label_stats with has_label=False for a resolved agent
\* stores max(labeled - 1, 0) and keeps total, so labeled == 0 stays 0.
C11_Floor ==
    (last.op = "update" /\ last.upd = "remove"
        /\ last.a \in ResolvedAgents(Scanner, last.p))
        => /\ last.p \in DOMAIN problem_stats
           /\ problem_stats[last.p] = <<Max(last.old[1] - 1, 0), last.old[2]>>
           /\ (last.old[1] = 0 => problem_stats[last.p][1] = 0)

\* has_label=False was sent for a resolved agent of a problem whose tuple was (0, 3).
C11_Witness ==
    /\ last.op = "update"
    /\ last.upd = "remove"
    /\ last.a \in ResolvedAgents(Scanner, last.p)
    /\ last.old = <<0, 3>>
    /\ problem_stats[last.p] = <<0, 3>>

\* C12: in the end-to-end scenario (acme__widget has P1 with resolved agents
\* X, Y, Z and P2 with none, no labels) the repo reads (0, 1) after the rebuild;
\* P1 reads (1, 3) and the repo (0, 1) after update(P1, X, True); P1 reads
\* (3, 3) and the repo (1, 1) after the updates for Y and Z; P1 reads (2, 3)
\* and the repo (0, 1) after update(P1, Z, False).
C12_Scenario ==
    /\ last.scn = 1 =>
           GetRepoLabelStats(repo_stats, "acme__widget") = <<0, 1>>
    /\ last.scn = 2 =>
           /\ GetProblemLabelStats(problem_stats, "P1") = <<1, 3>>
           /\ GetRepoLabelStats(repo_stats, "acme__widget") = <<0, 1>>
    /\ last.scn = 4 =>
           /\ GetProblemLabelStats(problem_stats, "P1") = <<3, 3>>
           /\ GetRepoLabelStats(repo_stats, "acme__widget") = <<1, 1>>
    /\ last.scn = 5 =>
           /\ GetProblemLabelStats(problem_stats, "P1") = <<2, 3>>
           /\ GetRepoLabelStats(repo_stats, "acme__widget") = <<0, 1>>
\* The whole scenario has been played: the last call was update(P1, Z, False)
\* after the rebuild and the three has_label=True calls.
C12_Witness ==
    /\ last.scn = 5
    /\ last.op = "update" /\ last.p = "P1" /\ last.a = "Z" /\ last.upd = "remove"
    /\ "P2" \notin DOMAIN problem_stats


\* C13: a rebuild_cache that directly follows a rebuild_cache (nothing changed
\* the index or the label store in between) leaves both mappings exactly as
\* the first one left them.
C13_RebuildIdempotent ==
    [][(last'.op = "rebuild" /\ last'.again)
          => (problem_stats' = problem_stats /\ repo_stats' = repo_stats)]_vars
\* rebuild_cache has run twice in a row over an index with resolved agents
\* and a store with a label.
C13_Witness ==
    /\ last.op = "rebuild" /\ last.again
    /\ DOMAIN problem_stats # {}
    /\ DOMAIN repo_stats # {}
    /\ labels # {}

\* C14: in every state, built or not, get_problem_label_stats and
\* get_repo_label_stats return the stored tuple for a present key and (0, 0)
\* for an absent one, and leave both mappings as they were.
C14_GettersTotal ==
    [][/\ last'.op = "get_problem" =>
            /\ ret' = IF last'.p \in DOMAIN problem_stats
                      THEN problem_stats[last'.p] ELSE <<0, 0>>
            /\ problem_stats' = problem_stats /\ repo_stats' = repo_stats
       /\ last'.op = "get_repo" =>
            /\ ret' = IF last'.p \in DOMAIN repo_stats
                      THEN repo_stats[last'.p] ELSE <<0, 0>>
            /\ problem_stats' = problem_stats /\ repo_stats' = repo_stats]_vars
\* A problem absent from the mapping was read before the first build, while
\* another problem was present, and the read returned (0, 0) without
\* inserting the key.
C14_Witness ==
    /\ last.op = "get_problem" /\ ~built
    /\ last.p \notin DOMAIN problem_stats
    /\ DOMAIN problem_stats # {}
    /\ ret = <<0, 0>>

\* C15: right after rebuild_cache a problem is a key of the problem mapping
\* exactly when it has a resolved agent, a repository is a key of the repo
\* mapping exactly when it has such a problem, and the repository's total
\* counts only those problems.
C15_KeysAfterRebuild ==
    last.op = "rebuild" =>
        /\ \A p \in Problems :
              p \in DOMAIN problem_stats <=> ResolvedAgents(Scanner, p) # {}
        /\ \A r \in Repos :
              LET with_resolved ==
                      {p \in Problems : /\ GetProblem(Scanner, p)
                                        /\ RepoOf(p) = r
                                        /\ ResolvedAgents(Scanner, p) # {}}
              IN  /\ r \in DOMAIN repo_stats <=> with_resolved # {}
                  /\ r \in DOMAIN repo_stats =>
                        repo_stats[r][2] = Cardinality(with_resolved)
\* rebuild_cache ran over an index in which P1 has resolved agents while P2
\* and P3 are known and have none: P1 is the only key, acme__widget counts
\* one problem and beta__tool is absent.
C15_Witness ==
    /\ last.op = "rebuild"
    /\ GetProblem(Scanner, "P2") /\ GetProblem(Scanner, "P3")
    /\ DOMAIN problem_stats = {"P1"}
    /\ DOMAIN repo_stats = {"acme__widget"}
    /\ repo_stats["acme__widget"][2] = 1

(* Further properties of the API layer (specification SpecRequests) *)
\* C16: a save-label, delete-label or commit-draft request changes the cache
\* only when its store mutation succeeded (the label file is there after a
\* save or commit, the draft file gone after a commit, the label file removed
\* by a delete); a request whose store operation failed reports the error and
\* leaves both mappings unchanged.
C16_UpdateAfterStoreSuccess ==
    [][/\ last'.op \in {"save_label_error", "delete_label_error",
                        "commit_draft_error"}
            => (problem_stats' = problem_stats /\ repo_stats' = repo_stats)
       /\ (/\ last'.op \in {"save_label", "delete_label", "commit_draft",
                             "save_label_error", "delete_label_error",
                             "commit_draft_error"}
           /\ (problem_stats' # problem_stats \/ repo_stats' # repo_stats))
            => \/ /\ last'.op = "save_label"
                  /\ <<last'.p, last'.a>> \in labels'
               \/ /\ last'.op = "delete_label"
                  /\ <<last'.p, last'.a>> \in labels
                  /\ <<last'.p, last'.a>> \notin labels'
               \/ /\ last'.op = "commit_draft"
                  /\ <<last'.p, last'.a>> \in drafts
                  /\ <<last'.p, last'.a>> \notin drafts'
                  /\ <<last'.p, last'.a>> \in labels']_vars
\* A save for a resolved agent of a built problem failed after creating the
\* file: the request reported the error and the tuple still counts no label.
C16_Witness ==
    /\ last.op = "save_label_error"
    /\ built
    /\ \E p \in DOMAIN problem_stats :
          /\ problem_stats[p][1] = 0
          /\ \E a \in ResolvedAgents(Scanner, p) : <<p, a>> \in labels

(***************************************************************************)
(* The label store on its own (services/file_service.py), with the text of *)
(* the files.  commit_draft runs statement by statement on one thread      *)
(* while other requests save and delete labels and drafts.  labels and     *)
(* drafts stay the sets of existing files.  The cache specifications above *)
(* need only the existence of label files and leave the texts out.         *)
(***************************************************************************)
FsOther == Op("fs_other", "-", "-", "none", FALSE)

\* save_label: open(label_file, "w") and write the content.
FsSaveLabel(k, t) ==
    /\ label_text' = DictPut(label_text, k, t)
    /\ labels' = DOMAIN label_text'
    /\ Cardinality(labels') <= MaxLabels
    /\ last' = FsOther
    /\ ret' = "None"
    /\ UNCHANGED <<up_vars, disk_vars, scanner_vars, drafts, draft_text, cd_pc,
                   cd_key,
                   cd_content, cache_vars, phase, built, rb_vars>>

\* delete_label: unlink the label file when it exists.
FsDeleteLabel(k) ==
    /\ k \in DOMAIN label_text
    /\ label_text' = DictDel(label_text, k)
    /\ labels' = DOMAIN label_text'
    /\ last' = FsOther
    /\ ret' = "None"
    /\ UNCHANGED <<up_vars, disk_vars, scanner_vars, drafts, draft_text, cd_pc,
                   cd_key,
                   cd_content, cache_vars, phase, built, rb_vars>>

\* save_draft: open(draft_file, "w") and write the content.
FsSaveDraft(k, t) ==
    /\ draft_text' = DictPut(draft_text, k, t)
    /\ drafts' = DOMAIN draft_text'
    /\ Cardinality(drafts') <= MaxDrafts
    /\ last' = FsOther
    /\ ret' = "None"
    /\ UNCHANGED <<up_vars, disk_vars, scanner_vars, labels, label_text, cd_pc,
                   cd_key,
                   cd_content, cache_vars, phase, built, rb_vars>>

\* delete_draft: unlink the draft file when it exists.
FsDeleteDraft(k) ==
    /\ k \in DOMAIN draft_text
    /\ draft_text' = DictDel(draft_text, k)
    /\ drafts' = DOMAIN draft_text'
    /\ last' = FsOther
    /\ ret' = "None"
    /\ UNCHANGED <<up_vars, disk_vars, scanner_vars, labels, label_text, cd_pc,
                   cd_key,
                   cd_content, cache_vars, phase, built, rb_vars>>

\* commit_draft raises RuntimeError (lines 160 and 194-197): no file changes.
CdRaise ==
    /\ cd_pc' = "idle"
    /\ cd_key' = <<"-", "-">>
    /\ cd_content' = "-"
    /\ last' = Op("fs_commit_error", "-", "-", "none", FALSE)
    /\ ret' = "None"
    /\ UNCHANGED <<up_vars, disk_vars, scanner_vars, store_vars, label_text,
                   draft_text,
                   cache_vars, phase, built, rb_vars>>

\* Lines 159-160: if not draft_file.exists(): raise RuntimeError.
CdExists(k) ==
    /\ cd_pc = "idle"
    /\ IF k \in DOMAIN draft_text
       THEN /\ cd_pc' = "checked"
            /\ cd_key' = k
            /\ last' = FsOther
            /\ ret' = "None"
            /\ UNCHANGED <<up_vars, disk_vars, scanner_vars, store_vars,
                           label_text,
                           draft_text, cd_content, cache_vars, phase, built,
                           rb_vars>>
       ELSE CdRaise

\* Lines 178-179: content = f.read(); a draft deleted since line 159 makes
\* open raise FileNotFoundError, an OSError.
CdRead ==
    /\ cd_pc = "checked"
    /\ IF cd_key \in DOMAIN draft_text
       THEN /\ cd_pc' = "read"
            /\ cd_content' = draft_text[cd_key]
            /\ last' = FsOther
            /\ ret' = "None"
            /\ UNCHANGED <<up_vars, disk_vars, scanner_vars, store_vars,
                           label_text,
                           draft_text, cd_key, cache_vars, phase, built, rb_vars>>
       ELSE CdRaise

\* Line 182: draft_file.rename(label_file), one rename(2) call: the draft
\* file becomes the label file, replacing the label file there was.
\* (Variant that copies the draft's text and leaves the draft file.)
RenameKeepsDraft(lt, dt, k) == [lt |-> DictPut(lt, k, dt[k]), dt |-> dt]
Rename(lt, dt, k) == [lt |-> DictPut(lt, k, dt[k]), dt |-> DictDel(dt, k)]

\* Lines 182-193: the rename, then the Label built from content is returned;
\* the rename raises OSError when the draft is gone or on any other failure
\* (rename_fails).
CdRename(rename_fails) ==
    /\ cd_pc = "read"
    /\ IF cd_key \in DOMAIN draft_text /\ ~rename_fails
       THEN /\ label_text' = Rename(label_text, draft_text, cd_key).lt
            /\ draft_text' = Rename(label_text, draft_text, cd_key).dt
            /\ labels' = DOMAIN label_text'
            /\ drafts' = DOMAIN draft_text'
            /\ Cardinality(labels') <= MaxLabels
            /\ cd_pc' = "idle"
            /\ cd_key' = <<"-", "-">>
            /\ cd_content' = "-"
            /\ last' = OpFull("fs_commit", cd_key[1], cd_key[2],
                              DictGet(label_text, cd_key, "none"),
                              cd_key \in DOMAIN label_text, <<0, 0>>, 0, FALSE)
            /\ ret' = cd_content
            /\ UNCHANGED <<up_vars, disk_vars, scanner_vars, cache_vars, phase,
                           built,
                           rb_vars>>
       ELSE CdRaise

NextStore ==
    \/ \E k \in StoreKeys, t \in Texts : FsSaveLabel(k, t)
    \/ \E k \in StoreKeys : FsDeleteLabel(k)
    \/ \E k \in StoreKeys, t \in Texts : FsSaveDraft(k, t)
    \/ \E k \in StoreKeys : FsDeleteDraft(k)
    \/ \E k \in StoreKeys : CdExists(k)
    \/ CdRead
    \/ \E rename_fails \in BOOLEAN : CdRename(rename_fails)

SpecStore == Init /\ [][NextStore]_vars

\* C17: the step in which commit_draft succeeds for a key takes the draft
\* file with its text as it is at that moment to the label file: after the
\* step the label of the key holds exactly that text, whatever label there
\* was before, and the draft is gone; the step is the single rename, so no
\* state lies between "draft holds the text" and "label holds the text".
C17_CommitAtomic ==
    [][(cd_pc = "read" /\ last'.op = "fs_commit")
          => /\ cd_key \in DOMAIN draft_text
             /\ cd_key \in DOMAIN label_text'
             /\ label_text'[cd_key] = draft_text[cd_key]
             /\ cd_key \notin DOMAIN draft_text'
             /\ \A k \in StoreKeys \ {cd_key} :
                   /\ (k \in DOMAIN label_text' <=> k \in DOMAIN label_text)
                   /\ (k \in DOMAIN draft_text' <=> k \in DOMAIN draft_text)]_vars
\* A draft was committed over a label with a different text: the label now
\* holds the draft's text and the draft file is gone.
C17_Witness ==
    /\ last.op = "fs_commit"
    /\ last.pre
    /\ <<last.p, last.a>> \in DOMAIN label_text
    /\ label_text[<<last.p, last.a>>] # last.upd
    /\ <<last.p, last.a>> \notin DOMAIN draft_text

(***************************************************************************)
(* The admin refresh (api/admin.py) while the results.json files of the    *)
(* agents change on disk and label files come and go.                      *)
(***************************************************************************)
\* The agents' results.json files are rewritten: what the next
\* _load_agent_results will read differs from what the last one read.
ResultsChange(dresolved) ==
    /\ dresolved # disk_resolved
    /\ disk_resolved' = dresolved
    /\ last' = Op("results_change", "-", "-", "none", FALSE)
    /\ ret' = "None"
    /\ UNCHANGED <<up_vars, disk_agents, disk_patches, file_vars, scanner_vars,
                   store_vars,
                   cache_vars, phase, built, rb_vars>>

NextAdmin ==
    \/ Lifespan
    \/ \E dresolved \in ResolvedConfigs : ResultsChange(dresolved)
    \/ \E k \in StoreKeys : FileSaveLabel(k[1], k[2])
    \/ \E k \in StoreKeys : FileDeleteLabel(k[1], k[2])
    \/ RefreshData

SpecAdmin == Init /\ [][NextAdmin]_vars

\* C18: when the admin refresh returns, the index is what a scan of the disk
\* gives and both mappings are what rebuild_cache computes from that index
\* and the label files now in the store, so every total is the number of
\* agents the disk now lists as resolved.
C18_RefreshScansThenRebuilds ==
    last.op = "refresh" =>
        /\ Scanner = ScanResult(Scanner)
        /\ problem_stats = RebuildResult(Scanner).ps
        /\ repo_stats = RebuildResult(Scanner).rs
        /\ \A p \in DOMAIN problem_stats :
              problem_stats[p][2] =
                  Cardinality({a \in disk_agents : <<a, p>> \in disk_resolved})
\* A refresh ran after the results on disk had changed since the previous
\* scan, so its scan changed the index, with a label file in the store and
\* tuples to compute.
C18_Witness ==
    /\ last.op = "refresh"
    /\ last.pre
    /\ labels # {}
    /\ DOMAIN problem_stats # {}

(***************************************************************************)
(* update_problem_label_stats statement by statement on two threads, one   *)
(* call each (FastAPI runs def endpoints on a thread pool and the class    *)
(* takes no lock).  Each action is one access to a shared dict.            *)
(***************************************************************************)
UpStep == Op("update_step", "-", "-", "none", FALSE)

\* Lines 115-119: the call and its early return.
UpCall(t, p, a, has_label) ==
    /\ up_pc[t] = "idle"
    /\ up_arg' = [up_arg EXCEPT ![t] = <<p, a, has_label>>]
    /\ up_pc' = [up_pc EXCEPT
                    ![t] = IF IsResolvedSubmission(Scanner, p, a)
                           THEN "get" ELSE "returned"]
    /\ last' = UpStep
    /\ ret' = "None"
    /\ UNCHANGED <<disk_vars, file_vars, scanner_vars, store_vars, cache_vars,
                   phase, built, rb_vars, up_old, up_todo, up_acc, up_seen,
                   up_writer>>

\* Line 122: labeled_count, total_count = self._problem_stats.get(...)
UpGet(t) ==
    /\ up_pc[t] = "get"
    /\ up_old' = [up_old EXCEPT ![t] = GetProblemLabelStats(problem_stats, up_arg[t][1])]
    /\ up_pc' = [up_pc EXCEPT ![t] = "set"]
    /\ last' = UpStep
    /\ ret' = "None"
    /\ UNCHANGED <<disk_vars, file_vars, scanner_vars, store_vars, cache_vars,
                   phase, built, rb_vars, up_arg, up_todo, up_acc, up_seen,
                   up_writer>>

\* Lines 124-136: the new tuple is stored; with the problem in the index the
\* recount starts (lines 147-150).
UpSet(t) ==
    /\ up_pc[t] = "set"
    /\ problem_stats' =
          DictPut(problem_stats, up_arg[t][1],
                  <<NewLabeledCount(up_old[t][1], up_old[t][2], up_arg[t][3]),
                    up_old[t][2]>>)
    /\ IF GetProblem(Scanner, up_arg[t][1])
       THEN /\ up_pc' = [up_pc EXCEPT ![t] = "recount"]
            /\ up_todo' = [up_todo EXCEPT
                              ![t] = GetProblems(Scanner, RepoOf(up_arg[t][1]))]
       ELSE /\ up_pc' = [up_pc EXCEPT ![t] = "returned"]
            /\ up_todo' = up_todo
    /\ up_acc' = [up_acc EXCEPT ![t] = <<0, 0>>]
    /\ up_seen' = [up_seen EXCEPT ![t] = EmptyDict]
    /\ last' = UpStep
    /\ ret' = "None"
    /\ UNCHANGED <<disk_vars, file_vars, scanner_vars, store_vars, repo_stats,
                   phase, built, rb_vars, up_arg, up_old, up_writer>>

\* Lines 150-162: one iteration of the recount reads one problem's tuple.
UpLoop(t) ==
    /\ up_pc[t] = "recount"
    /\ up_todo[t] # <<>>
    /\ LET prob == Head(up_todo[t])
           tup == GetProblemLabelStats(problem_stats, prob)
       IN  /\ up_acc' = [up_acc EXCEPT ![t] = RecountProblem(@, tup[1], tup[2])]
           /\ up_seen' = [up_seen EXCEPT ![t] = DictPut(@, prob, tup)]
    /\ up_todo' = [up_todo EXCEPT ![t] = Tail(@)]
    /\ last' = UpStep
    /\ ret' = "None"
    /\ UNCHANGED <<disk_vars, file_vars, scanner_vars, store_vars, cache_vars,
                   phase, built, rb_vars, up_pc, up_arg, up_old, up_writer>>

\* Lines 165-168: the recount is stored as the repository's tuple.
UpSetRepo(t) ==
    /\ up_pc[t] = "recount"
    /\ up_todo[t] = <<>>
    /\ repo_stats' = DictPut(repo_stats, RepoOf(up_arg[t][1]), up_acc[t])
    /\ up_writer' = t
    /\ up_pc' = [up_pc EXCEPT ![t] = "returned"]
    /\ last' = UpStep
    /\ ret' = "None"
    /\ UNCHANGED <<disk_vars, file_vars, scanner_vars, store_vars,
                   problem_stats,
                   phase, built, rb_vars, up_arg, up_old, up_todo, up_acc,
                   up_seen>>

\* The cache is built before the first call arrives.
RaceRebuild ==
    /\ \A t \in Threads : up_pc[t] = "idle"
    /\ RebuildCache

NextRace ==
    \/ Lifespan
    \/ RaceRebuild
    \/ \E t \in Threads, p \in Problems, a \in Agents, has_label \in BOOLEAN :
          UpCall(t, p, a, has_label)
    \/ \E t \in Threads : UpGet(t)
    \/ \E t \in Threads : UpSet(t)
    \/ \E t \in Threads : UpLoop(t)
    \/ \E t \in Threads : UpSetRepo(t)

SpecRace == Init /\ [][NextRace]_vars

\* Both threads have finished a call that went through the recount, for
\* different problems of one repository.
BothUpdatesFinished ==
    /\ \A t \in Threads : up_pc[t] = "returned" /\ up_seen[t] # EmptyDict
    /\ up_arg["T1"][1] # up_arg["T2"][1]
    /\ RepoOf(up_arg["T1"][1]) = RepoOf(up_arg["T2"][1])

\* The fully labeled count the per-problem tuples of repository r imply.
ImpliedFullyLabeled(r) ==
    Cardinality({p \in Problems :
                    /\ GetProblem(Scanner, p) /\ RepoOf(p) = r
                    /\ GetProblemLabelStats(problem_stats, p)[2] > 0
                    /\ GetProblemLabelStats(problem_stats, p)[1]
                           = GetProblemLabelStats(problem_stats, p)[2]})

\* C19: two unsynchronised update_problem_label_stats calls for different
\* problems of one repository leave, once both have finished, the count over
\* the per-problem tuples as the later writer of the repo tuple read them;
\* that count is lower than the one the per-problem tuples now imply only
\* when the later writer read a tuple that was stale (the witness is the
\* interleaving in which this happens).
C19_RaceUndercount ==
    BothUpdatesFinished =>
        LET r == RepoOf(up_arg["T1"][1])
            seen == up_seen[up_writer]
        IN  /\ r \in DOMAIN repo_stats
            /\ repo_stats[r] =
                  <<Cardinality({p \in DOMAIN seen :
                                    seen[p][2] > 0 /\ seen[p][1] = seen[p][2]}),
                    Cardinality({p \in DOMAIN seen : seen[p][2] > 0})>>
            /\ repo_stats[r][1] < ImpliedFullyLabeled(r)
                  => \E p \in DOMAIN seen :
                        seen[p] # GetProblemLabelStats(problem_stats, p)
\* Both calls have finished and the repository's fully labeled count is
\* lower than the per-problem tuples imply.
C19_Witness ==
    /\ BothUpdatesFinished
    /\ repo_stats[RepoOf(up_arg["T1"][1])][1]
          < ImpliedFullyLabeled(RepoOf(up_arg["T1"][1]))

\* The number of problems of repository r in the index whose cached tuple
\* has total > 0.
ImpliedTotalIssues(r) ==
    Cardinality({p \in Problems :
                    /\ GetProblem(Scanner, p) /\ RepoOf(p) = r
                    /\ GetProblemLabelStats(problem_stats, p)[2] > 0})

\* C20: with every rebuild, update and admin refresh run as one step, in
\* every state get_repo_label_stats(r) is, for every repository r, (number
\* of problems of r in the index whose cached tuple has total > 0 and
\* labeled == total, number of problems of r whose cached tuple has
\* total > 0).
C20_RepoAgreesWithProblems ==
    \A r \in Repos :
        GetRepoLabelStats(repo_stats, r)
            = <<ImpliedFullyLabeled(r), ImpliedTotalIssues(r)>>
\* An update has made a problem fully labeled beside a problem of the same
\* repository that is not, and the repo tuple says one of two.
C20_Witness ==
    /\ last.op = "update"
    /\ GetRepoLabelStats(repo_stats, "acme__widget") = <<1, 2>>
    /\ ImpliedFullyLabeled("acme__widget") = 1
    /\ ImpliedTotalIssues("acme__widget") = 2

(* Frame and repair properties of the cache (specification Spec) *)
\* C21: an update_problem_label_stats call for (p, a) leaves the total of p
\* as it was (0 for an absent p), and leaves the entry of every other problem
\* and of every repository other than p's as it was, present or absent.
C21_UpdateFrame ==
    [][last'.op = "update" =>
          /\ GetProblemLabelStats(problem_stats', last'.p)[2]
                = GetProblemLabelStats(problem_stats, last'.p)[2]
          /\ \A q \in Problems \ {last'.p} :
                /\ q \in DOMAIN problem_stats' <=> q \in DOMAIN problem_stats
                /\ q \in DOMAIN problem_stats => problem_stats'[q] = problem_stats[q]
          /\ \A r \in Repos \ {RepoOf(last'.p)} :
                /\ r \in DOMAIN repo_stats' <=> r \in DOMAIN repo_stats
                /\ r \in DOMAIN repo_stats => repo_stats'[r] = repo_stats[r]]_vars
\* An update for a resolved agent changed the tuple of its problem and the
\* tuple of its repository while another problem and another repository
\* have tuples.
C21_Witness ==
    /\ last.op = "update"
    /\ last.p = "P2"
    /\ last.a \in ResolvedAgents(Scanner, "P2")
    /\ problem_stats["P2"] # last.old
    /\ repo_stats["acme__widget"][1] = 1
    /\ "P3" \in DOMAIN problem_stats
    /\ "beta__tool" \in DOMAIN repo_stats

\* C22: a problem whose tuple reads (0, 0) keeps reading (0, 0) through every
\* operation other than a rebuild; an update_problem_label_stats call for a
\* resolved agent of such a problem, with either has_label value, stores
\* (0, 0) for it without looking up the number of resolved agents, and the
\* problem is not counted in the total of its repository.
C22_AbsentBaseline ==
    [][/\ last'.op \notin {"rebuild", "refresh"} =>
            \A p \in Problems :
                GetProblemLabelStats(problem_stats, p) = <<0, 0>>
                    => GetProblemLabelStats(problem_stats', p) = <<0, 0>>
       /\ (/\ last'.op = "update"
           /\ last'.a \in ResolvedAgents(Scanner, last'.p)
           /\ GetProblemLabelStats(problem_stats, last'.p) = <<0, 0>>)
            => /\ last'.p \in DOMAIN problem_stats'
               /\ problem_stats'[last'.p] = <<0, 0>>
               /\ repo_stats'[RepoOf(last'.p)][2] =
                     Cardinality({q \in Problems \ {last'.p} :
                                     /\ GetProblem(Scanner, q)
                                     /\ RepoOf(q) = RepoOf(last'.p)
                                     /\ GetProblemLabelStats(problem_stats, q)[2] > 0})
      ]_vars
\* Before any rebuild, has_label=True was sent for a resolved agent of P1,
\* which has three resolved agents: P1 reads (0, 0) and acme__widget counts
\* no problem.
C22_Witness ==
    /\ last.op = "update" /\ last.upd = "add" /\ last.p = "P1"
    /\ last.a \in ResolvedAgents(Scanner, "P1")
    /\ Cardinality(ResolvedAgents(Scanner, "P1")) = 3
    /\ ~built
    /\ "P1" \in DOMAIN problem_stats
    /\ problem_stats["P1"] = <<0, 0>>
    /\ repo_stats["acme__widget"] = <<0, 0>>

\* C23: whatever the mappings held before (tuples left by duplicate, missed
\* or spurious updates included), rebuild_cache leaves mappings that are a
\* function of the index and the label store alone: the keys and tuples
\* counted directly from them, and nothing else.
C23_RebuildRepairs ==
    last.op = "rebuild" =>
        /\ DOMAIN problem_stats = {p \in Problems : IndexTotal(p) > 0}
        /\ \A p \in DOMAIN problem_stats :
              problem_stats[p] = <<IndexLabeled(p), IndexTotal(p)>>
        /\ DOMAIN repo_stats = {r \in Repos : IndexRepoTuple(r)[2] > 0}
        /\ \A r \in DOMAIN repo_stats : repo_stats[r] = IndexRepoTuple(r)
\* rebuild_cache ran on mappings that updates had left different from what
\* the index and a non-empty label store say, and replaced them.
C23_Witness ==
    /\ last.op = "rebuild"
    /\ last.pre
    /\ built
    /\ labels # {}
    /\ \E p \in DOMAIN problem_stats : problem_stats[p][1] > 0

\* C24: a save-label or commit-draft request changes the cache by one
\* update_problem_label_stats(p, a, True), a delete-label request by one
\* update_problem_label_stats(p, a, False), never by more; a save-draft or
\* delete-draft request, like a request whose store operation failed, makes
\* no call: both mappings and the label files stay as they were.
C24_AtMostOneUpdate ==
    [][/\ last'.op \in {"save_draft", "delete_draft"} =>
            /\ problem_stats' = problem_stats /\ repo_stats' = repo_stats
            /\ labels' = labels
       /\ last'.op \in {"save_label", "commit_draft"} =>
            /\ problem_stats' = UpdateResult(Scanner, problem_stats, repo_stats,
                                             last'.p, last'.a, TRUE).ps
            /\ repo_stats' = UpdateResult(Scanner, problem_stats, repo_stats,
                                          last'.p, last'.a, TRUE).rs
       /\ last'.op = "delete_label" =>
            /\ problem_stats' = UpdateResult(Scanner, problem_stats, repo_stats,
                                             last'.p, last'.a, FALSE).ps
            /\ repo_stats' = UpdateResult(Scanner, problem_stats, repo_stats,
                                          last'.p, last'.a, FALSE).rs]_vars
\* A draft was saved for a resolved agent whose label exists, on a built
\* cache: the tuple still counts the label and nothing more.
C24_Witness ==
    /\ last.op = "save_draft"
    /\ last.pre
    /\ built
    /\ last.a \in ResolvedAgents(Scanner, last.p)
    /\ <<last.p, last.a>> \in drafts
    /\ <<last.p, last.a>> \in labels
    /\ problem_stats[last.p][1] = 1

\* C25: rebuild_cache, get_problem_label_stats, get_repo_label_stats and
\* update_problem_label_stats leave the Submission Index (agents, problems,
\* submissions with their resolved flags) and the Label Store (label and
\* draft files) as they were.
C25_CacheReadsOnly ==
    [][last'.op \in {"rebuild", "get_problem", "get_repo", "update"} =>
          /\ agents' = agents
          /\ problems' = problems
          /\ agent_submissions' = agent_submissions
          /\ labels' = labels
          /\ drafts' = drafts]_vars
\* rebuild_cache replaced tuples over a scanned index and a store with a
\* label file, both of which are still there.
C25_Witness ==
    /\ last.op = "rebuild"
    /\ last.pre
    /\ problems = Problems
    /\ labels # {}
    /\ \E p \in DOMAIN problem_stats : problem_stats[p][1] > 0

(***************************************************************************)
(* Rescans while patch files appear and disappear on disk.                 *)
(***************************************************************************)
\* *_patch.diff files are added to or removed from the agent directories:
\* what the next _scan_problems will glob differs from the last time.
PatchesChange(dpatches) ==
    /\ dpatches # disk_patches
    /\ disk_patches' = dpatches
    /\ last' = Op("patches_change", "-", "-", "none", FALSE)
    /\ ret' = "None"
    /\ UNCHANGED <<up_vars, disk_agents, disk_resolved, file_vars, scanner_vars,
                   store_vars, cache_vars, phase, built, rb_vars>>

NextScan ==
    \/ Lifespan
    \/ \E dresolved \in ResolvedConfigs : ResultsChange(dresolved)
    \/ \E dpatches \in {FullPatches, SparsePatches} : PatchesChange(dpatches)
    \/ \E k \in StoreKeys : FileSaveLabel(k[1], k[2])
    \/ \E k \in StoreKeys : FileDeleteLabel(k[1], k[2])
    \/ RefreshData

SpecScan == Init /\ [][NextScan]_vars

\* C26: when scan_data has returned (at startup or in the admin refresh),
\* the known problems are exactly the problem ids of the patch files now on
\* disk, so a problem whose patch files were all removed is unknown.
C26_IndexRecreated ==
    last.op \in {"lifespan", "refresh"} =>
        problems = AllProblemIds(disk_agents, disk_patches)

(***************************************************************************)
(* Label requests beside a rebuild, nothing synchronised: each thread      *)
(* serves one save-label or delete-label request that really adds or       *)
(* removes a label file (the store write, then update_problem_label_stats  *)
(* statement by statement), while rebuild_cache runs statement by          *)
(* statement on the thread of an admin refresh.                            *)
(***************************************************************************)
\* save_label, labels.py lines 119-122: file_service.save_label, then the
\* call of update_problem_label_stats(..., has_label=True) up to its early
\* return.
ReqSaveLabel(t, p, a) ==
    /\ phase = "serving"
    /\ up_pc[t] = "idle"
    /\ GetProblem(Scanner, p)
    /\ HasSubmission(Scanner, a, p)
    /\ <<p, a>> \notin labels
    /\ labels' = StoreSaveLabel(labels, p, a)
    /\ Cardinality(labels') <= MaxLabels
    /\ up_arg' = [up_arg EXCEPT ![t] = <<p, a, TRUE>>]
    /\ up_pc' = [up_pc EXCEPT
                    ![t] = IF IsResolvedSubmission(Scanner, p, a)
                           THEN "get" ELSE "returned"]
    /\ last' = UpStep
    /\ ret' = "None"
    /\ UNCHANGED <<disk_vars, file_vars, scanner_vars, drafts, cache_vars,
                   phase, built, rb_vars, up_old, up_todo, up_acc, up_seen,
                   up_writer>>

\* delete_label, labels.py lines 140-147: file_service.delete_label returned
\* True, then the call of update_problem_label_stats(..., has_label=False).
ReqDeleteLabel(t, p, a) ==
    /\ phase = "serving"
    /\ up_pc[t] = "idle"
    /\ GetProblem(Scanner, p)
    /\ <<p, a>> \in labels
    /\ labels' = StoreDeleteLabel(labels, p, a)
    /\ up_arg' = [up_arg EXCEPT ![t] = <<p, a, FALSE>>]
    /\ up_pc' = [up_pc EXCEPT
                    ![t] = IF IsResolvedSubmission(Scanner, p, a)
                           THEN "get" ELSE "returned"]
    /\ last' = UpStep
    /\ ret' = "None"
    /\ UNCHANGED <<disk_vars, file_vars, scanner_vars, drafts, cache_vars,
                   phase, built, rb_vars, up_old, up_todo, up_acc, up_seen,
                   up_writer>>

\* rebuild_cache begins (line 29); one execution in a behaviour.
MixRebuildBegins ==
    /\ ~built
    /\ RbClearProblemStats

NextMix ==
    \/ Lifespan
    \/ MixRebuildBegins
    \/ RbClearRepoStats
    \/ RbGetProblems
    \/ RbProblem
    \/ RbProblemsDone
    \/ RbStoreRepo
    \/ RbReturn
    \/ \E t \in Threads, k \in StoreKeys : ReqSaveLabel(t, k[1], k[2])
    \/ \E t \in Threads, k \in StoreKeys : ReqDeleteLabel(t, k[1], k[2])
    \/ \E t \in Threads : UpGet(t)
    \/ \E t \in Threads : UpSet(t)
    \/ \E t \in Threads : UpLoop(t)
    \/ \E t \in Threads : UpSetRepo(t)

SpecMix == Init /\ [][NextMix]_vars

\* C27: with update_problem_label_stats and rebuild_cache interleaved at
\* every access to a mapping and no lock, every tuple in the problem mapping
\* and in the repo mapping has 0 <= first component <= second component.
C27_TupleBoundsUnlocked ==
    /\ \A p \in DOMAIN problem_stats :
          0 <= problem_stats[p][1] /\ problem_stats[p][1] <= problem_stats[p][2]
    /\ \A r \in DOMAIN repo_stats :
          0 <= repo_stats[r][1] /\ repo_stats[r][1] <= repo_stats[r][2]
\* A rebuild is in its loops while one update has read its tuple and not yet
\* stored it and the other is in its recount, with a label counted in a
\* tuple and a repo tuple stored.
C27_Witness ==
    /\ rb_pc \in {"loop", "store"}
    /\ up_pc["T1"] = "set"
    /\ up_pc["T2"] = "recount"
    /\ \E p \in DOMAIN problem_stats : problem_stats[p][1] > 0
    /\ DOMAIN repo_stats # {}

\* C28: two concurrent update_problem_label_stats calls with has_label=True
\* for two different resolved agents of one problem, made on a built cache
\* in which the problem counted no label, leave once both have finished a
\* labeled count of 2 (or the total, when the total is below 2).
C28_BothAddsCounted ==
    (/\ built
     /\ \A t \in Threads :
           /\ up_pc[t] = "returned"
           /\ up_seen[t] # EmptyDict
           /\ up_arg[t][3]
     /\ up_arg["T1"][1] = up_arg["T2"][1]
     /\ up_arg["T1"][2] # up_arg["T2"][2])
        => problem_stats[up_arg["T1"][1]][1]
              = Min(2, problem_stats[up_arg["T1"][1]][2])

\* C29: when one save-label or delete-label request (store write, then the
\* cache update) overlaps one rebuild_cache execution, then once both have
\* completed the tuple of the request's problem reads as rebuild_cache
\* computes it from the final Label Store.
C29_CountedOnceAcrossRebuild ==
    (/\ built
     /\ rb_pc = "idle"
     /\ up_pc["T1"] = "returned"
     /\ up_pc["T2"] = "idle")
        => GetProblemLabelStats(problem_stats, up_arg["T1"][1])
              = GetProblemLabelStats(RebuildResult(Scanner).ps, up_arg["T1"][1])

\* C30: in every state reached from process start through label save,
\* delete and commit requests and admin refreshes, every key of the problem
\* mapping has a total_resolved_count above 0.
C30_NoZeroTuple ==
    \A p \in DOMAIN problem_stats : problem_stats[p][2] > 0

=============================================================================
